---------------------------- MODULE Spec2Model ----------------------------
(***************************************************************************)
(* A model of src/main.ts: the Swagger -> Postman generator.               *)
(*                                                                         *)
(* Conventions used for JavaScript values                                  *)
(*   - an optional field (one that may be undefined) is a sequence of      *)
(*     length 0 (absent) or 1 (present);                                   *)
(*   - a JavaScript object that is iterated with Object.entries is the     *)
(*     sequence of its <<key, value>> entries, keys pairwise distinct, in  *)
(*     iteration order;                                                    *)
(*   - a string that the code parses (a path template, a $ref) is the      *)
(*     sequence of its characters; other strings are opaque TLA+ strings;  *)
(*   - a JSON text is the sequence of its tokens.                          *)
(***************************************************************************)
EXTENDS Integers, Sequences, FiniteSets, TLC

VARIABLES
    swaggerFile,  \* the file at swaggerFilePath (main.ts:9)
    swagger,      \* the parsed Swagger document (main.ts:145), <<>> before it is read
    pc,           \* position of main (main.ts:144-174)
    serverIdx,    \* index of the server the for-loop of main.ts:147 is at
    console,      \* what console.log printed so far (stdout)
    stderr,       \* what main().catch(console.error) printed (main.ts:176)
    pending,      \* fs.writeFile calls started and not yet settled (main.ts:140)
    files,        \* the files on disk: entries <<filename, content>>
    settled,      \* the fs.writeFile calls that ended, each with how it ended
    rejected,     \* rejected saveToFile promises nobody awaits (main.ts:158,172)
    collection,   \* the result of createCollection in main (main.ts:166)
    schema,       \* argument of a call of generateFakeData (main.ts:35)
    fakeData      \* the outcome of that call

vars == <<swaggerFile, swagger, pc, serverIdx, console, stderr, pending, files,
          settled, rejected, collection, schema, fakeData>>

mainVars == <<swaggerFile, swagger, pc, serverIdx, console, stderr, pending, files,
              settled, rejected, collection>>

fakeVars == <<schema, fakeData>>

----------------------------------------------------------------------------
(* Bounds of the model *)

MaxDepth == 1
MaxProps == 2
MaxServers == 2
MaxSegments == 3
MaxParams == 3
MaxPaths == 2

----------------------------------------------------------------------------
(* Generic helpers *)

Range(s) == {s[n] : n \in 1..Len(s)}

Absent == <<>>

Present(x) == <<x>>

IsPresent(opt) == Len(opt) > 0

Entry(k, v) == <<k, v>>

EntryKeys(entries) == {entries[n][1] : n \in 1..Len(entries)}

----------------------------------------------------------------------------
(* faker: the random values the generator draws. A faker is one draw of each
   kind; it stands for every call of that kind within one construction. *)

ProductNames == {"Handcrafted Steel Chair"}

Ints == {42}

Words == {"lorem", "ipsum"}

Fakers == [productName : ProductNames, int : Ints, word : Words]

----------------------------------------------------------------------------
(* Schema nodes *)

SchemaNode(t, it, pr) == [type |-> t, items |-> it, properties |-> pr]

\* A thrown exception
Thrown(n, m) == [name |-> n, message |-> m]

NoError == Thrown("", <<>>)

TypeErrorUndefined == Thrown("TypeError", <<"Cannot convert undefined or null to object">>)

MissingTypeError(key) == Thrown("Error", <<"Type property is missing for ", key>>)

\* Values of the generated data
StringValue(s) == [kind |-> "string", str |-> s, num |-> 0, elems |-> <<>>, fields |-> <<>>]

NumberValue(n) == [kind |-> "number", str |-> "", num |-> n, elems |-> <<>>, fields |-> <<>>]

ArrayValue(es) == [kind |-> "array", str |-> "", num |-> 0, elems |-> es, fields |-> <<>>]

ObjectValue(fs) == [kind |-> "object", str |-> "", num |-> 0, elems |-> <<>>, fields |-> fs]

\* The outcome of a call: a returned value or a thrown exception
Returned(v) == [ok |-> TRUE, value |-> Present(v), error |-> NoError]

Threw(e) == [ok |-> FALSE, value |-> Absent, error |-> e]

\* A variant of hasTypeProperty that accepts every node
hasTypeProperty_Always(obj) == TRUE

\* main.ts:30-32: obj && obj.type, taken as a condition
hasTypeProperty(obj) == IsPresent(obj.type) /\ obj.type[1] # ""

TypeIs(value, t) == IsPresent(value.type) /\ value.type[1] = t

RECURSIVE generateFakeData(_, _)
RECURSIVE FakeDataLoop(_, _, _, _)

\* main.ts:37-51: the for-loop over Object.entries(schema.properties), from
\* entry n on, with the data built so far
FakeDataLoop(entries, n, data, faker) ==
    IF n > Len(entries) THEN Returned(ObjectValue(data))
    ELSE LET key == entries[n][1]
             value == entries[n][2]
         IN IF ~hasTypeProperty(value) THEN Threw(MissingTypeError(key))
            ELSE IF TypeIs(value, "string")
            THEN FakeDataLoop(entries, n + 1,
                              Append(data, Entry(key, StringValue(faker.productName))), faker)
            ELSE IF TypeIs(value, "integer")
            THEN FakeDataLoop(entries, n + 1,
                              Append(data, Entry(key, NumberValue(faker.int))), faker)
            ELSE IF TypeIs(value, "array") /\ IsPresent(value.items)
            THEN LET item == generateFakeData(value.items, faker)
                 IN IF ~item.ok THEN item
                    ELSE FakeDataLoop(entries, n + 1,
                                      Append(data, Entry(key, ArrayValue(<<item.value[1]>>))),
                                      faker)
            ELSE IF TypeIs(value, "object")
            THEN LET nested == generateFakeData(Present(value), faker)
                 IN IF ~nested.ok THEN nested
                    ELSE FakeDataLoop(entries, n + 1,
                                      Append(data, Entry(key, nested.value[1])), faker)
            ELSE FakeDataLoop(entries, n + 1, data, faker)

\* main.ts:35-53; the argument is optional: an undefined schema, or one without
\* properties, makes Object.entries(schema.properties) throw a TypeError
generateFakeData(optSchema, faker) ==
    IF ~IsPresent(optSchema) THEN Threw(TypeErrorUndefined)
    ELSE IF ~IsPresent(optSchema[1].properties) THEN Threw(TypeErrorUndefined)
    ELSE FakeDataLoop(optSchema[1].properties[1], 1, <<>>, faker)


----------------------------------------------------------------------------
(* Strings the code parses, as sequences of characters *)

RECURSIVE SplitFrom(_, _, _, _)
\* String.prototype.split(sep) for a one-character separator: the pieces of s
\* from position n on, cur being the piece read so far
SplitFrom(s, sep, n, cur) ==
    IF n > Len(s) THEN <<cur>>
    ELSE IF s[n] = sep THEN <<cur>> \o SplitFrom(s, sep, n + 1, <<>>)
    ELSE SplitFrom(s, sep, n + 1, Append(cur, s[n]))

Split(s, sep) == SplitFrom(s, sep, 1, <<>>)

\* Array.prototype.pop() of a non-empty array, as a value
Pop(list) == list[Len(list)]

\* Array.prototype.filter(Boolean) on strings: the empty string is falsy
FilterBoolean(list) == SelectSeq(list, LAMBDA piece : piece # <<>>)

\* String.prototype.includes for one character
Includes(s, c) == \E n \in 1..Len(s) : s[n] = c

\* The position of the first c in s at or after position n, 0 when there is none
RECURSIVE IndexFrom(_, _, _)
IndexFrom(s, c, n) ==
    IF n > Len(s) THEN 0
    ELSE IF s[n] = c THEN n
    ELSE IndexFrom(s, c, n + 1)

RECURSIVE MatchBracesFrom(_, _)
\* path.match(/{(.*?)}/g) scanning from position n: each match runs from the
\* next "{" to the first "}" after it; the scan resumes after the match
MatchBracesFrom(s, n) ==
    LET open == IndexFrom(s, "{", n)
        close == IF open = 0 THEN 0 ELSE IndexFrom(s, "}", open + 1)
    IN IF open = 0 \/ close = 0 THEN <<>>
       ELSE <<SubSeq(s, open, close)>> \o MatchBracesFrom(s, close + 1)

\* String.prototype.match with a global regular expression: null (Absent) when
\* nothing matches
MatchBraces(s) ==
    LET found == MatchBracesFrom(s, 1)
    IN IF found = <<>> THEN Absent ELSE Present(found)

\* v.slice(1, -1)
SliceInner(v) == SubSeq(v, 2, Len(v) - 1)

\* String.prototype.toUpperCase on the keys of a path item
ToUpperCase(method) ==
    CASE method = "get" -> "GET"
      [] method = "post" -> "POST"
      [] method = "put" -> "PUT"
      [] method = "delete" -> "DELETE"
      [] method = "parameters" -> "PARAMETERS"
      [] OTHER -> method

RECURSIVE JSONStringify(_)
RECURSIVE JSONStringifyList(_, _, _)

\* The tokens of the members of an array (keyed = FALSE) or of an object
\* (keyed = TRUE) from member n on, separated by commas
JSONStringifyList(members, n, keyed) ==
    IF n > Len(members) THEN <<>>
    ELSE (IF n > 1 THEN <<",">> ELSE <<>>)
         \o (IF keyed
             THEN <<"\"", members[n][1], "\"", ":">> \o JSONStringify(members[n][2])
             ELSE JSONStringify(members[n]))
         \o JSONStringifyList(members, n + 1, keyed)

\* JSON.stringify(value): the sequence of tokens of the JSON text
JSONStringify(value) ==
    CASE value.kind = "string" -> <<"\"", value.str, "\"">>
      [] value.kind = "number" -> <<ToString(value.num)>>
      [] value.kind = "array" -> <<"[">> \o JSONStringifyList(value.elems, 1, FALSE) \o <<"]">>
      [] value.kind = "object" -> <<"{">> \o JSONStringifyList(value.fields, 1, TRUE) \o <<"}">>

----------------------------------------------------------------------------
(* createCollection, main.ts:55-114 *)

BaseUrlVar == <<"{", "{", "b", "a", "s", "e", "_", "u", "r", "l", "}", "}">>

JsonMediaType == "application/json"

\* A variant of Lookup that falls back on the first entry when the key is missing
Lookup_OrFirst(entries, key) ==
    IF \E n \in 1..Len(entries) : entries[n][1] = key
    THEN Present(entries[CHOOSE n \in 1..Len(entries) : entries[n][1] = key][2])
    ELSE IF entries # <<>> THEN Present(entries[1][2])
    ELSE Absent

\* obj[key] on an object given by its entries: Absent when there is no such key
Lookup(entries, key) ==
    IF \E n \in 1..Len(entries) : entries[n][1] = key
    THEN Present(entries[CHOOSE n \in 1..Len(entries) : entries[n][1] = key][2])
    ELSE Absent

\* main.ts:65-66: details.requestBody?.content["application/json"]?.schema?.$ref;
\* a requestBody without content makes the index expression throw
BodySchemaRef(details) ==
    IF ~IsPresent(details.requestBody) THEN Returned(Absent)
    ELSE IF ~IsPresent(details.requestBody[1].content) THEN Threw(TypeErrorUndefined)
    ELSE LET media == Lookup(details.requestBody[1].content[1], JsonMediaType)
         IN IF ~IsPresent(media) THEN Returned(Absent)
            ELSE IF ~IsPresent(media[1].schema) THEN Returned(Absent)
            ELSE Returned(media[1].schema[1].ref)

\* main.ts:67-75: the body of the request, optional; the outcome of building it
RequestBody(doc, details, faker) ==
    LET ref == BodySchemaRef(details)
    IN IF ~ref.ok THEN ref
       ELSE LET bodySchemaRef == ref.value[1]
            IN IF ~IsPresent(bodySchemaRef) \/ bodySchemaRef[1] = <<>>
               THEN Returned(Absent)
               ELSE LET schemaKey == Pop(Split(bodySchemaRef[1], "/"))
                        found == Lookup(doc.components.schemas, schemaKey)
                        data == generateFakeData(found, faker)
                    IN IF ~data.ok THEN data
                       ELSE Returned(Present([mode |-> "raw",
                                              raw |-> JSONStringify(data.value[1])]))

RECURSIVE QueryParamsFrom(_, _, _)
\* main.ts:79-87: filter(param.in === "query") then map, from parameter n on;
\* the map reads param.schema.type and throws when a query parameter has no schema
QueryParamsFrom(parameters, n, faker) ==
    IF n > Len(parameters) THEN Returned(<<>>)
    ELSE LET param == parameters[n]
             rest == QueryParamsFrom(parameters, n + 1, faker)
         IN IF param.in # "query" THEN rest
            ELSE IF ~IsPresent(param.schema) THEN Threw(TypeErrorUndefined)
            ELSE IF ~rest.ok THEN rest
            ELSE Returned(<<[key |-> param.name,
                             value |-> IF TypeIs(param.schema[1], "array")
                                       THEN JSONStringify(ArrayValue(<<StringValue(faker.word)>>))
                                       ELSE <<faker.word>>,
                             description |-> param.description]>> \o rest.value[1])

RECURSIVE QueryParamsUnfilteredFrom(_, _, _)
\* QueryParamsFrom without the filter on the location
QueryParamsUnfilteredFrom(parameters, n, faker) ==
    IF n > Len(parameters) THEN Returned(<<>>)
    ELSE LET param == parameters[n]
             rest == QueryParamsUnfilteredFrom(parameters, n + 1, faker)
         IN IF ~IsPresent(param.schema) THEN Threw(TypeErrorUndefined)
            ELSE IF ~rest.ok THEN rest
            ELSE Returned(<<[key |-> param.name,
                             value |-> IF TypeIs(param.schema[1], "array")
                                       THEN JSONStringify(ArrayValue(<<StringValue(faker.word)>>))
                                       ELSE <<faker.word>>,
                             description |-> param.description]>> \o rest.value[1])

\* A variant of QueryParams that maps every parameter, whatever its location
QueryParams_Unfiltered(details, faker) ==
    IF ~IsPresent(details.parameters) THEN Returned(<<>>)
    ELSE QueryParamsUnfilteredFrom(details.parameters[1], 1, faker)

\* main.ts:77-87: details.parameters?. ... || []
QueryParams(details, faker) ==
    IF ~IsPresent(details.parameters) THEN Returned(<<>>)
    ELSE QueryParamsFrom(details.parameters[1], 1, faker)

\* main.ts:99-105: the path variables; match(...)! is null when the path holds
\* a "{" that no "}" follows, and null.map throws
PathVariables(path) ==
    IF Includes(path, "{")
    THEN LET matches == MatchBraces(path)
         IN IF ~IsPresent(matches) THEN Threw(TypeErrorUndefined)
            ELSE Returned([n \in 1..Len(matches[1]) |->
                             [key |-> SliceInner(matches[1][n]), value |-> <<>>,
                              description |-> <<>>]])
    ELSE Returned(<<>>)

\* main.ts:64-110: the request item of one (path, method) entry
RequestItem(doc, path, method, details, faker) ==
    LET body == RequestBody(doc, details, faker)
        queryParams == QueryParams(details, faker)
        variable == PathVariables(path)
    IN IF ~body.ok THEN body
       ELSE IF ~queryParams.ok THEN queryParams
       ELSE IF ~variable.ok THEN variable
       ELSE Returned(
              [name |-> IF IsPresent(details.summary) /\ details.summary[1] # <<>>
                        THEN details.summary[1] ELSE path,
               request |->
                  [method |-> ToUpperCase(method),
                   header |-> <<>>,
                   url |-> [raw |-> BaseUrlVar \o path,
                            host |-> <<BaseUrlVar>>,
                            path |-> FilterBoolean(Split(path, "/")),
                            query |-> queryParams.value[1],
                            variable |-> variable.value[1]],
                   body |-> body.value[1]],
               response |-> <<>>])

RECURSIVE ItemsFrom(_, _, _, _)
\* main.ts:63-64: flatMap over the paths, map over the methods of each, from
\* method m of path p on; the first exception ends the construction
ItemsFrom(doc, p, m, faker) ==
    IF p > Len(doc.paths) THEN Returned(<<>>)
    ELSE LET path == doc.paths[p][1]
             methods == doc.paths[p][2]
         IN IF m > Len(methods) THEN ItemsFrom(doc, p + 1, 1, faker)
            ELSE LET item == RequestItem(doc, path, methods[m][1], methods[m][2], faker)
                 IN IF ~item.ok THEN item
                    ELSE LET rest == ItemsFrom(doc, p, m + 1, faker)
                         IN IF ~rest.ok THEN rest
                            ELSE Returned(<<item.value[1]>> \o rest.value[1])

CollectionInfo ==
    [name |-> "Generated Collection",
     description |-> "Collection generated from Swagger file",
     schema |-> "https://schema.getpostman.com/json/collection/v2.1.0/collection.json"]

\* A variant of createCollection that lists the items last first
createCollection_Reversed(doc, faker) ==
    LET item == ItemsFrom(doc, 1, 1, faker)
    IN IF ~item.ok THEN item
       ELSE Returned([collection |->
                        [info |-> CollectionInfo,
                         item |-> [k \in 1..Len(item.value[1]) |->
                                     item.value[1][Len(item.value[1]) + 1 - k]]]])

\* main.ts:55-114
createCollection(doc, faker) ==
    LET item == ItemsFrom(doc, 1, 1, faker)
    IN IF ~item.ok THEN item
       ELSE Returned([collection |-> [info |-> CollectionInfo, item |-> item.value[1]]])

----------------------------------------------------------------------------
(* fetchSwagger, createEnvironment and saveToFile *)

MissingFile == [status |-> "missing", document |-> Absent]

InvalidFile == [status |-> "invalid", document |-> Absent]

JsonFile(doc) == [status |-> "json", document |-> Present(doc)]

\* main.ts:18-21: fs.readFile rejects when the file is missing, JSON.parse throws
\* on a text that is not JSON
fetchSwagger(file) ==
    IF file.status = "missing"
    THEN Threw(Thrown("Error", <<"ENOENT: no such file or directory">>))
    ELSE IF file.status = "invalid"
    THEN Threw(Thrown("SyntaxError", <<"Unexpected token in JSON">>))
    ELSE Returned(file.document[1])

\* A server URL string, by its parts; a relative URL has no scheme
Url(scheme, hostname, port, path) ==
    [scheme |-> scheme, hostname |-> hostname, port |-> port, path |-> path]

DefaultPort(scheme) ==
    CASE scheme = "https" -> "443"
      [] scheme = "http" -> "80"
      [] OTHER -> ""

\* new URL(serverUrl).host: the hostname, then ":" and the port unless the port
\* is the default one of the scheme; new URL throws on a URL without scheme
URLHost(url) ==
    IF url.scheme = "" THEN Threw(Thrown("TypeError", <<"Invalid URL">>))
    ELSE IF url.port = "" \/ url.port = DefaultPort(url.scheme)
    THEN Returned(<<url.hostname>>)
    ELSE Returned(<<url.hostname, ":", url.port>>)

\* A variant of createEnvironment that names the environment by the hostname,
\* without the port
createEnvironment_Hostname(serverUrl) ==
    LET host == URLHost(serverUrl)
    IN IF ~host.ok THEN host
       ELSE Returned([environment |->
                        [name |-> <<serverUrl.hostname>>,
                         values |-> <<[key |-> "base_url", value |-> serverUrl,
                                       enabled |-> TRUE]>>]])

\* main.ts:23-28
createEnvironment(serverUrl) ==
    LET host == URLHost(serverUrl)
    IN IF ~host.ok THEN host
       ELSE Returned([environment |->
                        [name |-> host.value[1],
                         values |-> <<[key |-> "base_url", value |-> serverUrl,
                                       enabled |-> TRUE]>>]])

\* main.ts:158: `environment_${new URL(server.url).host}.json`
EnvironmentFile(host) == <<"environment_">> \o host \o <<".json">>

CollectionFile == <<"collection_generated.json">>

\* The content of a file: nothing yet (just opened for writing), the JSON text
\* of a document, or bytes of two texts written over one another
EmptyContent == [text |-> "empty", document |-> Absent]

GarbledContent == [text |-> "garbled", document |-> Absent]

\* main.ts:140: JSON.stringify(data, null, 2)
JSONStringifyPretty(data) == [text |-> "json", document |-> Present(data)]

\* main.ts:139-141: the fs.writeFile call that saveToFile starts; id is the index
\* of the server the file is written for, CollectionWriteId for the collection
WriteCall(id, filename, data) ==
    [id |-> id, filename |-> filename, content |-> JSONStringifyPretty(data),
     opened |-> FALSE]

CollectionWriteId == 0

WriteError(id) == Thrown("Error", <<"EIO: i/o error, write", ToString(id)>>)

PutFile(fs, filename, content) ==
    [f \in DOMAIN fs \cup {filename} |-> IF f = filename THEN content ELSE fs[f]]

CompletionMessage == "Environments and Collection created/updated successfully."

Logged(text, value) == [text |-> text, inspected |-> value]

Reported(via, error) == [via |-> via, error |-> error]

----------------------------------------------------------------------------
(* The schemas generateFakeData is checked on *)

KeyNames == <<"id", "name", "tags", "owner", "extra">>

NestedKey == "zip"

OtherTypes == {"boolean"}

\* Nodes without items and without properties, of every type and of none, and
\* the object without any property
Leaves ==
    {SchemaNode(Absent, Absent, Absent)}
    \cup {SchemaNode(Present(t), Absent, Absent) :
            t \in {"string", "integer", "array", "object"} \cup OtherTypes}
    \cup {SchemaNode(Present("object"), Absent, Present(<<>>))}

RECURSIVE Nodes(_)
\* Property nodes nested at most d levels deep
Nodes(d) ==
    IF d = 0 THEN Leaves
    ELSE LET below == Nodes(d - 1)
         IN below
            \cup {SchemaNode(Present("array"), Present(n), Absent) : n \in below}
            \cup {SchemaNode(Present("object"), Absent,
                             Present(<<Entry(NestedKey, n)>>)) : n \in below}

RECURSIVE PropertyLists(_, _)
\* The properties mappings over the first k key names, values in nodes
PropertyLists(k, nodes) ==
    IF k = 0 THEN {<<>>}
    ELSE LET shorter == PropertyLists(k - 1, nodes)
         IN shorter \cup {Append(l, Entry(KeyNames[k], n)) : l \in shorter, n \in nodes}

Schemas ==
    {SchemaNode(Present("object"), Absent, Present(pl)) :
        pl \in PropertyLists(MaxProps, Nodes(MaxDepth))}

----------------------------------------------------------------------------
(* generateFakeData called on its own *)

InitMainIdle ==
    /\ swaggerFile = MissingFile
    /\ swagger = Absent
    /\ pc = "idle"
    /\ serverIdx = 0
    /\ console = <<>>
    /\ stderr = <<>>
    /\ pending = {}
    /\ files = <<>>
    /\ settled = {}
    /\ rejected = {}
    /\ collection = Absent

InitFake ==
    /\ InitMainIdle
    /\ schema \in Schemas
    /\ fakeData = Absent

CallGenerateFakeData ==
    /\ pc = "idle"
    /\ fakeData = Absent
    /\ \E faker \in Fakers : fakeData' = Present(generateFakeData(Present(schema), faker))
    /\ UNCHANGED <<schema, mainVars>>

NextFake == CallGenerateFakeData

SpecFake == InitFake /\ [][NextFake]_vars

----------------------------------------------------------------------------
(* The Swagger documents main and createCollection are checked on *)

RefPrefix ==
    <<"#", "/", "c", "o", "m", "p", "o", "n", "e", "n", "t", "s", "/",
      "s", "c", "h", "e", "m", "a", "s", "/">>

PetName == <<"P", "e", "t">>

OwnerName == <<"O", "w", "n", "e", "r">>

PetSchema ==
    SchemaNode(Present("object"), Absent,
               Present(<<Entry("name", SchemaNode(Present("string"), Absent, Absent)),
                         Entry("age", SchemaNode(Present("integer"), Absent, Absent))>>))

\* components.schemas declares Pet and nothing else
PetComponents == [schemas |-> <<Entry(PetName, PetSchema)>>]

Details(summary, requestBody, parameters) ==
    [summary |-> summary, requestBody |-> requestBody, parameters |-> parameters]

JsonBody(name) ==
    Present([content |->
               Present(<<Entry(JsonMediaType,
                               [schema |-> Present([ref |-> Present(RefPrefix \o name)])])>>)])

PlainDetails == Details(Absent, Absent, Absent)

SummaryDetails == Details(Present(<<"L", "i", "s", "t">>), Absent, Absent)

PetBodyDetails == Details(Absent, JsonBody(PetName), Absent)

OwnerBodyDetails == Details(Absent, JsonBody(OwnerName), Absent)

Document(servers, paths) ==
    [servers |-> servers, paths |-> paths, components |-> PetComponents]

Server(url) == [url |-> url]

ServerUrls ==
    {Url("https", "api.example.com", "", ""),
     Url("https", "api.example.com", "443", "/v2"),
     Url("https", "staging.example.com", "8080", ""),
     Url("", "", "", "/api/v3")}

RECURSIVE ListsUpTo(_, _)
\* The sequences of at most n elements of set
ListsUpTo(set, n) ==
    IF n = 0 THEN {<<>>}
    ELSE LET shorter == ListsUpTo(set, n - 1)
         IN shorter \cup {Append(l, x) : l \in shorter, x \in set}

RECURSIVE EntryLists(_, _, _)
\* The objects over keys: sequences of at most n entries with distinct keys
EntryLists(keys, values, n) ==
    IF n = 0 THEN {<<>>}
    ELSE LET shorter == EntryLists(keys, values, n - 1)
         IN shorter \cup UNION {{Append(l, Entry(k, v)) :
                                    k \in keys \ EntryKeys(l), v \in values} :
                                  l \in shorter}

PetsPath == <<"/", "p", "e", "t", "s">>

StorePath == <<"/", "s", "t", "o", "r", "e">>

PetByIdPath == <<"/", "p", "e", "t", "s", "/", "{", "i", "d", "}">>

\* The paths the runs of main are checked on
MainPaths ==
    {<<>>,
     <<Entry(PetsPath, <<Entry("get", SummaryDetails)>>)>>,
     <<Entry(PetsPath, <<Entry("post", PetBodyDetails)>>)>>,
     <<Entry(PetsPath, <<Entry("get", PlainDetails), Entry("post", OwnerBodyDetails)>>)>>,
     <<Entry(PetsPath, <<Entry("post", OwnerBodyDetails)>>),
       Entry(StorePath, <<Entry("get", PlainDetails)>>)>>}

MainFiles ==
    {MissingFile, InvalidFile}
    \cup {JsonFile(Document(servers, paths)) :
            servers \in ListsUpTo({Server(u) : u \in ServerUrls}, MaxServers),
            paths \in MainPaths}

----------------------------------------------------------------------------
(* main, main.ts:144-176 *)

Init ==
    /\ swaggerFile \in MainFiles
    /\ swagger = Absent
    /\ pc = "fetch"
    /\ serverIdx = 0
    /\ console = <<>>
    /\ stderr = <<>>
    /\ pending = {}
    /\ files = <<>>
    /\ settled = {}
    /\ rejected = {}
    /\ collection = Absent
    /\ schema = Absent
    /\ fakeData = Absent

\* main.ts:176: an exception in main rejects its promise, and the handler
\* attached by main().catch(console.error) prints it
MainThrows(error) ==
    /\ pc' = "failed"
    /\ stderr' = Append(stderr, Reported("console.error", error))

\* main.ts:145
FetchSwagger ==
    /\ pc = "fetch"
    /\ LET read == fetchSwagger(swaggerFile)
       IN IF read.ok
          THEN /\ swagger' = read.value
               /\ serverIdx' = 1
               /\ pc' = "servers"
               /\ UNCHANGED stderr
          ELSE /\ MainThrows(read.error)
               /\ UNCHANGED <<swagger, serverIdx>>
    /\ UNCHANGED <<swaggerFile, console, pending, files, settled, rejected,
                   collection, fakeVars>>

\* main.ts:147-159: one turn of the loop over the servers; saveToFile is called
\* and its promise dropped
ServerStep ==
    /\ pc = "servers"
    /\ serverIdx <= Len(swagger[1].servers)
    /\ LET server == swagger[1].servers[serverIdx]
           environment == createEnvironment(server.url)
       IN IF environment.ok
          THEN /\ console' = Append(console, Logged("", environment.value))
               /\ pending' = pending \cup
                    {WriteCall(serverIdx, EnvironmentFile(URLHost(server.url).value[1]),
                               environment.value[1])}
               /\ serverIdx' = serverIdx + 1
               /\ UNCHANGED <<pc, stderr>>
          ELSE /\ MainThrows(environment.error)
               /\ UNCHANGED <<console, pending, serverIdx>>
    /\ UNCHANGED <<swaggerFile, swagger, files, settled, rejected, collection, fakeVars>>

\* main.ts:166-167
CreateCollection ==
    /\ pc = "servers"
    /\ serverIdx > Len(swagger[1].servers)
    /\ \E faker \in Fakers :
         LET created == createCollection(swagger[1], faker)
         IN /\ collection' = Present(created)
            /\ IF created.ok
               THEN /\ console' = Append(console, Logged("", created.value))
                    /\ pc' = "save"
                    /\ UNCHANGED stderr
               ELSE /\ MainThrows(created.error)
                    /\ UNCHANGED console
    /\ UNCHANGED <<swaggerFile, swagger, serverIdx, pending, files, settled, rejected,
                   fakeVars>>

\* main.ts:172: saveToFile is called and its promise dropped
SaveCollection ==
    /\ pc = "save"
    /\ pending' = pending \cup
         {WriteCall(CollectionWriteId, CollectionFile, collection[1].value[1])}
    /\ pc' = "log"
    /\ UNCHANGED <<swaggerFile, swagger, serverIdx, console, stderr, files, settled,
                   rejected, collection, fakeVars>>

\* main.ts:173
LogCompletion ==
    /\ pc = "log"
    /\ console' = Append(console, Logged(CompletionMessage, Absent))
    /\ pc' = "returned"
    /\ UNCHANGED <<swaggerFile, swagger, serverIdx, stderr, pending, files, settled,
                   rejected, collection, fakeVars>>

\* main.ts:140, fs.writeFile: the file is opened for writing, which empties it
WriteOpens ==
    /\ pc # "crashed"
    /\ \E w \in pending :
         /\ ~w.opened
         /\ files' = PutFile(files, w.filename, EmptyContent)
         /\ pending' = (pending \ {w}) \cup {[w EXCEPT !.opened = TRUE]}
    /\ UNCHANGED <<swaggerFile, swagger, pc, serverIdx, console, stderr, settled,
                   rejected, collection, fakeVars>>

\* main.ts:140, fs.writeFile: the text is written and the call ends. When
\* another call wrote a different text to the file since this one opened it, the
\* two calls race: the file holds this text, or bytes of both
WriteCompletes ==
    /\ pc # "crashed"
    /\ \E w \in pending :
         /\ w.opened
         /\ \E content \in (IF files[w.filename] \in {EmptyContent, w.content}
                            THEN {w.content}
                            ELSE {w.content, GarbledContent}) :
              files' = PutFile(files, w.filename, content)
         /\ pending' = pending \ {w}
         /\ settled' = settled \cup {[id |-> w.id, result |-> "written"]}
    /\ UNCHANGED <<swaggerFile, swagger, pc, serverIdx, console, stderr, rejected,
                   collection, fakeVars>>

\* main.ts:140, fs.writeFile fails: the await in saveToFile throws and the
\* promise saveToFile returned, which nobody holds, is rejected
WriteFails ==
    /\ pc # "crashed"
    /\ \E w \in pending :
         /\ pending' = pending \ {w}
         /\ settled' = settled \cup {[id |-> w.id, result |-> "failed"]}
         /\ rejected' = rejected \cup {w.id}
    /\ UNCHANGED <<swaggerFile, swagger, pc, serverIdx, console, stderr, files,
                   collection, fakeVars>>

\* The runtime finds a rejected promise without handler once main has run to
\* its end or thrown: it prints the error and ends the process, abandoning the
\* writes still under way (mode "throw"), or prints a warning (mode "warn")
UnhandledRejection ==
    /\ pc \in {"returned", "failed"}
    /\ \E id \in rejected, mode \in {"throw", "warn"} :
         /\ stderr' = Append(stderr, Reported("unhandledRejection", WriteError(id)))
         /\ rejected' = rejected \ {id}
         /\ IF mode = "throw"
            THEN /\ pc' = "crashed"
                 /\ pending' = {}
                 /\ settled' = settled \cup
                      {[id |-> w.id, result |-> "abandoned"] : w \in pending}
            ELSE UNCHANGED <<pc, pending, settled>>
    /\ UNCHANGED <<swaggerFile, swagger, serverIdx, console, files, collection, fakeVars>>

Next ==
    \/ FetchSwagger
    \/ ServerStep
    \/ CreateCollection
    \/ SaveCollection
    \/ LogCompletion
    \/ WriteOpens
    \/ WriteCompletes
    \/ WriteFails
    \/ UnhandledRejection

Spec == Init /\ [][Next]_vars

----------------------------------------------------------------------------
(* What the claims about generateFakeData speak of, read off the schema *)

SupportedTypes == {"string", "integer", "array", "object"}

HasNoType(node) == ~IsPresent(node.type)

\* The node whose properties the generator walks for a property node: the items
\* of an array, the node itself for an object, none otherwise
Walked(node) ==
    IF HasNoType(node) THEN Absent
    ELSE IF node.type[1] = "array" THEN node.items
    ELSE IF node.type[1] = "object" THEN Present(node)
    ELSE Absent

\* A type outside string, integer, array-with-items, object
IsUnsupported(node) ==
    /\ ~HasNoType(node)
    /\ \/ node.type[1] \notin SupportedTypes
       \/ node.type[1] = "array" /\ ~IsPresent(node.items)

RECURSIVE KeysWhere(_, _)
\* The keys of the properties, at every nesting level the generator descends
\* to, that satisfy P
KeysWhere(P(_), optNode) ==
    IF ~IsPresent(optNode) \/ ~IsPresent(optNode[1].properties) THEN {}
    ELSE LET entries == optNode[1].properties[1]
         IN UNION {(IF P(entries[n][2]) THEN {entries[n][1]} ELSE {})
                   \cup KeysWhere(P, Walked(entries[n][2])) : n \in 1..Len(entries)}

TypelessKeys(node) == KeysWhere(HasNoType, Present(node))

UnsupportedKeys(node) == KeysWhere(IsUnsupported, Present(node))

RECURSIVE EveryWalkedHasProperties(_)
\* No node the generator walks lacks its properties mapping
EveryWalkedHasProperties(optNode) ==
    \/ ~IsPresent(optNode)
    \/ /\ IsPresent(optNode[1].properties)
       /\ \A n \in 1..Len(optNode[1].properties[1]) :
            EveryWalkedHasProperties(Walked(optNode[1].properties[1][n][2]))

RECURSIVE AllTypedSupported(_)
\* Every property, at every nesting level, is typed string, integer, object or array
AllTypedSupported(node) ==
    /\ IsPresent(node.properties) =>
         \A n \in 1..Len(node.properties[1]) :
            LET value == node.properties[1][n][2]
            IN /\ ~HasNoType(value)
               /\ value.type[1] \in SupportedTypes
               /\ AllTypedSupported(value)
    /\ IsPresent(node.items) => AllTypedSupported(node.items[1])

DeclaredKeys(node) ==
    IF IsPresent(node.properties) THEN EntryKeys(node.properties[1]) ELSE {}

DeclaredNode(node, key) ==
    LET entries == node.properties[1]
    IN entries[CHOOSE n \in 1..Len(entries) : entries[n][1] = key][2]

RECURSIVE ShapeMatches(_, _)
\* value has the shape the object schema node declares: the declared keys, and for
\* each key a string, a number, a one-element sequence or a nested mapping
ShapeMatches(node, value) ==
    /\ value.kind = "object"
    /\ EntryKeys(value.fields) = DeclaredKeys(node)
    /\ \A n \in 1..Len(value.fields) :
         LET declared == DeclaredNode(node, value.fields[n][1])
             v == value.fields[n][2]
         IN CASE TypeIs(declared, "string") -> v.kind = "string"
              [] TypeIs(declared, "integer") -> v.kind = "number"
              [] TypeIs(declared, "array") -> v.kind = "array" /\ Len(v.elems) = 1
              [] TypeIs(declared, "object") -> ShapeMatches(declared, v)
              [] OTHER -> FALSE

FakeDataCalled == IsPresent(fakeData)

FakeDataOutcome == fakeData[1]

\* C4: for a schema whose properties are all typed string, integer, object or
\* array, generateFakeData returns a mapping with exactly the declared keys and
\* values of the declared shapes.
C4_SupportedSchemaShape ==
    (FakeDataCalled /\ AllTypedSupported(schema)) =>
        /\ FakeDataOutcome.ok
        /\ ShapeMatches(schema, FakeDataOutcome.value[1])

\* C5: when a property the generator walks has no type field, the call fails,
\* returns no data, and an Error it throws names a property that has no type;
\* it is that Error whenever every walked node has its properties mapping.
C5_MissingTypeFails ==
    (FakeDataCalled /\ TypelessKeys(schema) # {}) =>
        /\ ~FakeDataOutcome.ok
        /\ FakeDataOutcome.value = Absent
        /\ FakeDataOutcome.error.name = "Error" =>
             \E key \in TypelessKeys(schema) :
                FakeDataOutcome.error = MissingTypeError(key)
        /\ EveryWalkedHasProperties(Present(schema)) =>
             FakeDataOutcome.error.name = "Error"

\* C5 witness: the call failed on a nested property without a type, after a
\* typed first property
C5_Witness ==
    /\ FakeDataCalled
    /\ ~FakeDataOutcome.ok
    /\ FakeDataOutcome.error = MissingTypeError(NestedKey)
    /\ Len(schema.properties[1]) = 2
    /\ TypeIs(schema.properties[1][1][2], "string")

\* C6: a property whose type is none of string, integer, array with items,
\* object makes generateFakeData fail with an error naming that property.
C6_UnsupportedTypeFails ==
    (/\ FakeDataCalled
     /\ UnsupportedKeys(schema) # {}
     /\ TypelessKeys(schema) = {}
     /\ EveryWalkedHasProperties(Present(schema))) =>
        /\ ~FakeDataOutcome.ok
        /\ \E key \in UnsupportedKeys(schema) :
              FakeDataOutcome.error.message = <<"Type property is missing for ", key>>

----------------------------------------------------------------------------
(* What the claims about main speak of *)

CompletionPrinted == \E n \in 1..Len(console) : console[n].text = CompletionMessage

PendingIds == {w.id : w \in pending}

SettledIds == {s.id : s \in settled}

Written(id) == [id |-> id, result |-> "written"] \in settled

FailedWrites == {s.id : s \in {t \in settled : t.result = "failed"}}

ReportedByHandler(error) ==
    \E n \in 1..Len(stderr) : stderr[n] = Reported("console.error", error)

ProcessEnded == pc \in {"returned", "failed", "crashed"} /\ pending = {} /\ rejected = {}

\* main returned, every write ended and none failed, nothing was reported
RunCompleted ==
    /\ pc = "returned"
    /\ pending = {}
    /\ rejected = {}
    /\ FailedWrites = {}
    /\ stderr = <<>>

ServerCount == Len(swagger[1].servers)

ServerUrl(i) == swagger[1].servers[i].url

ServerHost(i) == URLHost(ServerUrl(i)).value[1]

EnvironmentFilesOnDisk == DOMAIN files \ {CollectionFile}

\* The Environment document of a server URL, as section 4.2 of the spec gives it
ExpectedEnvironment(i) ==
    [environment |->
        [name |-> ServerHost(i),
         values |-> <<[key |-> "base_url", value |-> ServerUrl(i), enabled |-> TRUE]>>]]

\* C1: a file write blocks the flow: an environment write is over before the
\* next server is processed, all of them are over before the collection write
\* starts, and the completion message comes after the collection write is over.
C1_WritesBlockFlow ==
    /\ \A w \in pending :
          w.id # CollectionWriteId => pc = "servers" /\ w.id >= serverIdx - 1
    /\ CollectionWriteId \in PendingIds \cup SettledIds =>
          \A w \in pending : w.id = CollectionWriteId
    /\ CompletionPrinted => Written(CollectionWriteId)

\* C2: an error at any step, a failed file write included, aborts the run: the
\* completion message is not printed, and when the process is over the handler
\* attached to main has reported the error.
C2_AnyErrorAborts ==
    /\ pc = "failed" =>
          /\ ~CompletionPrinted
          /\ \E n \in 1..Len(stderr) : stderr[n].via = "console.error"
    /\ \A id \in FailedWrites :
          /\ ~CompletionPrinted
          /\ ProcessEnded => ReportedByHandler(WriteError(id))

\* C3 as stated: a run that completes without error leaves one environment
\* file per server entry, n in all, each holding the document of its server.
C3_OneFilePerServer ==
    RunCompleted =>
        /\ Cardinality(EnvironmentFilesOnDisk) = ServerCount
        /\ \A i \in 1..ServerCount :
              /\ EnvironmentFile(ServerHost(i)) \in DOMAIN files
              /\ files[EnvironmentFile(ServerHost(i))] =
                    JSONStringifyPretty(ExpectedEnvironment(i))

\* C3 as amended: a run that completes without error leaves one environment
\* file per distinct host of the server entries, and the file of a host that
\* only one entry has holds the document of that entry.
C3_OneFilePerHost ==
    RunCompleted =>
        /\ EnvironmentFilesOnDisk =
              {EnvironmentFile(ServerHost(i)) : i \in 1..ServerCount}
        /\ \A i \in 1..ServerCount :
              (\A j \in 1..ServerCount : j # i => ServerHost(j) # ServerHost(i)) =>
                  files[EnvironmentFile(ServerHost(i))] =
                      JSONStringifyPretty(ExpectedEnvironment(i))

\* C3 witness: a completed run over two servers with different URLs of one
\* host, which left one environment file
C3_Witness ==
    /\ RunCompleted
    /\ ServerCount = 2
    /\ ServerHost(1) = ServerHost(2)
    /\ ServerUrl(1) # ServerUrl(2)
    /\ Cardinality(EnvironmentFilesOnDisk) = 1

\* Some operation of the document has a JSON request body whose $ref names a
\* schema that components.schemas does not declare
HasMissingRef(doc) ==
    \E p \in 1..Len(doc.paths) : \E m \in 1..Len(doc.paths[p][2]) :
        LET body == doc.paths[p][2][m][2].requestBody
        IN /\ IsPresent(body)
           /\ IsPresent(body[1].content)
           /\ \E c \in 1..Len(body[1].content[1]) :
                LET media == body[1].content[1][c]
                IN /\ media[1] = JsonMediaType
                   /\ IsPresent(media[2].schema)
                   /\ IsPresent(media[2].schema[1].ref)
                   /\ media[2].schema[1].ref[1] \notin
                        {RefPrefix \o name : name \in EntryKeys(doc.components.schemas)}

\* C10: with a $ref to a schema that is not declared, createCollection throws
\* and returns no document, the write of the collection file is never started,
\* and the environment writes started for the servers stay started or ended.
C10_MissingSchemaAborts ==
    (swaggerFile.status = "json" /\ HasMissingRef(swaggerFile.document[1])) =>
        /\ CollectionWriteId \notin PendingIds \cup SettledIds
        /\ CollectionFile \notin DOMAIN files
        /\ IsPresent(collection) =>
              /\ ~collection[1].ok
              /\ collection[1].value = Absent
              /\ collection[1].error.name = "TypeError"
              /\ pc \in {"failed", "crashed"}
              /\ ReportedByHandler(collection[1].error)
              /\ \A i \in 1..ServerCount :
                    /\ i \in PendingIds \cup SettledIds
                    /\ Written(i) => EnvironmentFile(ServerHost(i)) \in DOMAIN files

\* C10 witness: createCollection threw on a document with an undeclared $ref
\* next to a sound operation, one environment file written and one write pending
C10_Witness ==
    /\ IsPresent(collection)
    /\ ~collection[1].ok
    /\ HasMissingRef(swagger[1])
    /\ Len(swagger[1].paths[1][2]) = 2
    /\ pc = "failed"
    /\ ServerCount = 2
    /\ Written(1)
    /\ 2 \in PendingIds

----------------------------------------------------------------------------
(* createCollection called on its own *)

Segments == {<<"a">>, <<"{", "a", "}">>, <<"{", "b", "}">>}

RECURSIVE JoinSegments(_)
\* The path template made of the segments, each after a "/"
JoinSegments(segments) ==
    IF segments = <<>> THEN <<>>
    ELSE <<"/">> \o Head(segments) \o JoinSegments(Tail(segments))

PathTemplates ==
    {IF segments = <<>> THEN <<"/">> ELSE JoinSegments(segments) :
        segments \in ListsUpTo(Segments, MaxSegments)}

Parameter(name, in, paramSchema) ==
    [name |-> name, in |-> in, schema |-> paramSchema, description |-> Absent]

Parameters ==
    {Parameter(name, in, paramSchema) :
        name \in {"limit", "tags"},
        in \in {"query", "path"},
        paramSchema \in {Absent,
                         Present([type |-> Present("array")]),
                         Present([type |-> Present("integer")])}}

MethodNames == {"get", "post"}

PathKeys == {PetsPath, StorePath, PetByIdPath}

\* One path template with one operation
TemplateDocuments ==
    {Document(<<>>, <<Entry(path, <<Entry("get", PlainDetails)>>)>>) :
        path \in PathTemplates}

\* One operation with or without parameters
ParameterDocuments ==
    {Document(<<>>, <<Entry(PetsPath, <<Entry("get", Details(Absent, Absent, parameters))>>)>>) :
        parameters \in {Absent} \cup
                       {Present(l) : l \in ListsUpTo(Parameters, MaxParams)}}

\* Several paths, each with none, one or two operations
PathDocuments ==
    {Document(<<>>, paths) :
        paths \in EntryLists(PathKeys,
                             EntryLists(MethodNames,
                                        {SummaryDetails, OwnerBodyDetails},
                                        Cardinality(MethodNames)),
                             MaxPaths)}

InitColl ==
    /\ swaggerFile = MissingFile
    /\ \/ \E doc \in TemplateDocuments : swagger = Present(doc)
       \/ \E doc \in ParameterDocuments : swagger = Present(doc)
       \/ \E doc \in PathDocuments : swagger = Present(doc)
    /\ pc = "idle"
    /\ serverIdx = 0
    /\ console = <<>>
    /\ stderr = <<>>
    /\ pending = {}
    /\ files = <<>>
    /\ settled = {}
    /\ rejected = {}
    /\ collection = Absent
    /\ schema = Absent
    /\ fakeData = Absent

CallCreateCollection ==
    /\ pc = "idle"
    /\ IsPresent(swagger)
    /\ collection = Absent
    /\ \E faker \in Fakers : collection' = Present(createCollection(swagger[1], faker))
    /\ UNCHANGED <<swaggerFile, swagger, pc, serverIdx, console, stderr, pending,
                   files, settled, rejected, fakeVars>>

NextColl == CallCreateCollection

SpecColl == InitColl /\ [][NextColl]_vars

----------------------------------------------------------------------------
(* What the claims about createCollection speak of, read off the document *)

CollectionReturned == IsPresent(collection) /\ collection[1].ok

Items == collection[1].value[1].collection.item

RECURSIVE OperationsFrom(_, _)
\* The (path, method) pairs of the document in the order it lists them, from
\* path p on
OperationsFrom(doc, p) ==
    IF p > Len(doc.paths) THEN <<>>
    ELSE [m \in 1..Len(doc.paths[p][2]) |->
            [path |-> doc.paths[p][1],
             method |-> doc.paths[p][2][m][1],
             details |-> doc.paths[p][2][m][2]]]
         \o OperationsFrom(doc, p + 1)

Operations == OperationsFrom(swagger[1], 1)

UpperCaseName == [get |-> "GET", post |-> "POST"]

\* The names between braces of the segments of a path that are {name}
BracketedNames(path) ==
    {SubSeq(segment, 2, Len(segment) - 1) :
        segment \in {piece \in Range(Split(path, "/")) :
                        /\ Len(piece) >= 2
                        /\ piece[1] = "{"
                        /\ piece[Len(piece)] = "}"}}

\* C7: the path-variable list of an item has one entry per distinct {name}
\* segment of its path, with the name as key and an empty value; a repeated
\* {name} gives one entry.
C7_OneVariablePerName ==
    CollectionReturned =>
        \A k \in 1..Len(Items) :
            LET variable == Items[k].request.url.variable
                names == BracketedNames(Operations[k].path)
            IN /\ Len(variable) = Cardinality(names)
               /\ {variable[n].key : n \in 1..Len(variable)} = names
               /\ \A n \in 1..Len(variable) : variable[n].value = <<>>

QueryParameters(details) ==
    IF IsPresent(details.parameters)
    THEN SelectSeq(details.parameters[1], LAMBDA param : param.in = "query")
    ELSE <<>>

IsJsonArrayOfOneWord(value) ==
    /\ Len(value) = 5
    /\ value[1] = "["
    /\ value[2] = "\""
    /\ value[3] \in Words
    /\ value[4] = "\""
    /\ value[5] = "]"

IsOneWord(value) == Len(value) = 1 /\ value[1] \in Words

\* C8: the query list of an item has one entry per parameter located in the
\* query, in the order of the parameters, and none for the others; the value is
\* a JSON array of one word for a parameter of array type, one word otherwise;
\* without parameters the list is empty.
C8_QueryEntries ==
    CollectionReturned =>
        \A k \in 1..Len(Items) :
            LET query == Items[k].request.url.query
                wanted == QueryParameters(Operations[k].details)
            IN /\ Len(query) = Len(wanted)
               /\ \A n \in 1..Len(query) :
                    /\ query[n].key = wanted[n].name
                    /\ IF wanted[n].schema[1].type = Present("array")
                       THEN IsJsonArrayOfOneWord(query[n].value)
                       ELSE IsOneWord(query[n].value)

\* C8 witness: an item whose query list has an array entry and a word entry,
\* built from three parameters, the one outside the query without a schema
C8_Witness ==
    /\ CollectionReturned
    /\ Len(Items) = 1
    /\ IsPresent(Operations[1].details.parameters)
    /\ Len(Operations[1].details.parameters[1]) = 3
    /\ Operations[1].details.parameters[1][2].in = "path"
    /\ ~IsPresent(Operations[1].details.parameters[1][2].schema)
    /\ Len(Items[1].request.url.query) = 2
    /\ IsJsonArrayOfOneWord(Items[1].request.url.query[1].value)
    /\ IsOneWord(Items[1].request.url.query[2].value)

\* C9: the collection has one item per (path, method) pair of the document and
\* no other, in the order of the paths and, within a path, of its methods.
C9_ItemPerOperation ==
    CollectionReturned =>
        /\ Len(Items) = Len(Operations)
        /\ \A k \in 1..Len(Items) :
              /\ Items[k].request.url.raw = BaseUrlVar \o Operations[k].path
              /\ Items[k].request.method = UpperCaseName[Operations[k].method]

\* C9 witness: four items from two paths of two methods each
C9_Witness ==
    /\ CollectionReturned
    /\ Len(swagger[1].paths) = 2
    /\ Len(swagger[1].paths[1][2]) = 2
    /\ Len(swagger[1].paths[2][2]) = 2
    /\ Len(Items) = 4
    /\ Items[1].request.method = "GET"
    /\ Items[2].request.method = "POST"

=============================================================================
